---- MODULE Spec2Model ----
(***************************************************************************)
(* Model of the Upwork job-matcher backend: the OAuth callback and the     *)
(* /auth/status endpoint of backend/main.py over the .env file and the     *)
(* process environment, and the tenant-id resolver of backend/upwork_api.py *)
(* (the same code as examples/example/myapp.py) behind its asyncio lock.   *)
(***************************************************************************)
EXTENDS Integers, Sequences, FiniteSets, TLC

\* ---- bounds ----
NumTasks == 2      \* request tasks that call get_organization_tenant_id
MaxCalls == 3      \* invocations of get_organization_tenant_id in one run

\* ---- Python values ----
\* None, and a key that is absent from a dict, from the .env file or from os.environ
None == "None"
\* Python truthiness of an optional string: None and "" are falsy
Truthy(v) == v # None /\ v # ""

Tasks == 1..NumTasks
\* the lock value when no task holds _tenant_id_lock
Free == 0

\* ---- upstream token endpoint ----
\* HTTP statuses the token endpoint answers with: a 2xx, a 4xx and a 5xx, the
\* classes the source tells apart; 0 stands for a transport error (client.post
\* raises before any response exists)
TransportError == 0
TokenStatuses == {200, 403, 502}
\* what tokens.get('access_token') / tokens.get('refresh_token') can give
AccessValues == {None, "", "at1"}
RefreshValues == {None, "", "rt1"}
\* the responses of the token endpoint: a transport error, a 4xx/5xx answer, a 2xx
\* answer whose body is not JSON, and a 2xx JSON body with or without each token
TokenResponses ==
    {[status |-> TransportError, json |-> FALSE, access_token |-> None, refresh_token |-> None]}
    \cup {[status |-> s, json |-> FALSE, access_token |-> None, refresh_token |-> None] :
             s \in TokenStatuses}
    \cup {[status |-> 200, json |-> TRUE, access_token |-> a, refresh_token |-> r] :
             a \in AccessValues, r \in RefreshValues}
NoTokenResponse == [status |-> TransportError, json |-> FALSE, access_token |-> "-", refresh_token |-> "-"]

\* mutant: only server errors raise
RaisesForStatusServerOnly(status) == status >= 500

\* response.raise_for_status(): raises HTTPStatusError for 4xx and 5xx
RaisesForStatus(status) == status >= 400

\* ---- upstream companySelector (list organizations) ----
OrgIds == {"org1", "org2"}
\* gql_response of client.post: the call raises, the response is falsy, the response
\* cannot be walked with .get (AttributeError), or it carries the items list
OrgResponses ==
    {[kind |-> k, items |-> << >>] : k \in {"raise", "empty", "unparsable"}}
    \cup {[kind |-> "data", items |-> i] :
             i \in {<< >>, <<None>>, <<"org1">>, <<"org2", "org1">>, <<None, "org2">>}}

\* ---- responses of the handlers ----
\* RedirectResponse answers with its default status code
RedirectStatus == 307
NoReply == [status_code |-> 0, to |-> "-", auth_status |-> "-", refresh |-> "-", message |-> "-"]
\* RedirectResponse(url=f"{FRONTEND_URL}?auth_status=success&refresh=true")
SuccessRedirect ==
    [status_code |-> RedirectStatus, to |-> "FRONTEND_URL", auth_status |-> "success",
     refresh |-> "true", message |-> "-"]
\* RedirectResponse(url=f"{FRONTEND_URL}?auth_status=error&message=<msg>")
ErrorRedirect(msg) ==
    [status_code |-> RedirectStatus, to |-> "FRONTEND_URL", auth_status |-> "error",
     refresh |-> "-", message |-> msg]

\* ---- job search: bounds and inputs ----
MaxEdges == 2      \* edges in one upstream search response

\* first: int = 50 in the signature of search_upwork_jobs_gql
FirstDefault == 50
\* the caller passes no first (the body or the call has no such argument)
NoFirst == -1
\* query: absent, empty, or a keyword
Queries == {None, "", "python"}
\* category_ids / locations: a list is only tested for truthiness, so an absent
\* list and an empty one are the same input, the empty sequence
CategoryLists == {<< >>, <<"c1">>}
LocationLists == {<< >>, <<"USA">>}
Firsts == {NoFirst, 10}
Cursors == {None, "cur1"}
\* the two entry points of a job search: POST /jobs/fetch of backend/main.py, which
\* calls backend/upwork_api.search_upwork_jobs_gql, and a direct call of
\* search_upwork_jobs_gql of examples/example/myapp.py
Vias == {"fetch_jobs", "example"}
NoRequest ==
    [via |-> "-", query |-> None, category_ids |-> << >>, locations |-> << >>,
     first |-> NoFirst, after |-> None]
SearchRequests ==
    {[via |-> v, query |-> q, category_ids |-> c, locations |-> l, first |-> f, after |-> a] :
        v \in Vias, q \in Queries, c \in CategoryLists, l \in LocationLists,
        f \in Firsts, a \in Cursors}

\* a Python list is truthy when it is not empty
TruthyList(l) == Len(l) > 0
\* str(cat_id) of an id that is already a str
Str(v) == v
\* a dict with one key
Dict1(k, v) == k :> v
EmptyDict == << >>

\* ---- job search: upstream marketplaceJobPostingsSearch responses ----
\* a nested object of a node is absent from the node, null, or an object
Absent == "absent"
Null == "null"
Obj == "obj"
NestedObjects == {"job", "contractTerms", "client", "location", "skills"}
\* a node with every nested object present; contractTerms lies inside job and
\* location inside client; names are the name of each entry of skills, None for
\* an entry without a name
FullNode ==
    [title |-> "T1", ciphertext |-> "C1", job |-> Obj, contractTerms |-> Obj,
     contractType |-> "HOURLY", client |-> Obj, location |-> Obj, country |-> "USA",
     skills |-> Obj, names |-> <<"python", None>>]
\* a node in which one nested object is absent or null
PartNode(field, tag) == [FullNode EXCEPT !.title = "T2", !.ciphertext = "C2", ![field] = tag]
Nodes == {FullNode} \cup {PartNode(f, t) : f \in NestedObjects, t \in {Absent, Null}}
EdgeLists == UNION {[1..n -> Nodes] : n \in 0..MaxEdges}
\* the message of each entry of a GraphQL errors array, None for an entry without
\* one; the array of a GraphQL response is never empty
ErrorLists == {<<"boom">>, <<None>>, <<"boom", "bang">>}
NoErrors == << >>
SearchResponse(kind, errors, data, result, edges) ==
    [kind |-> kind, errors |-> errors, data |-> data, result |-> result, edges |-> edges,
     totalCount |-> Len(edges),
     endCursor |-> IF Len(edges) > 0 THEN "cur2" ELSE None,
     hasNextPage |-> Len(edges) > 0]
NoSearchResponse == SearchResponse("-", NoErrors, Absent, Absent, << >>)
\* gql_response of client.post: the call raises (transport failure), it returns
\* None, or it returns a body: {} , a body with errors (data absent or null), a
\* body whose data has no marketplaceJobPostingsSearch or a null one, or a body
\* with the search result and its edges
SearchResponses ==
    {SearchResponse(k, NoErrors, Absent, Absent, << >>) : k \in {"raise", "none", "body"}}
    \cup {SearchResponse("body", e, d, Absent, << >>) : e \in ErrorLists, d \in {Absent, Null}}
    \cup {SearchResponse("body", NoErrors, Obj, r, << >>) : r \in {Absent, Null}}
    \cup {SearchResponse("body", NoErrors, Obj, Obj, edges) : edges \in EdgeLists}

VARIABLES
    dotenv,       \* the .env file at DOTENV_PATH: the two token keys
    environ,      \* os.environ of the process: the five credentials and the default tenant
    cbPc,         \* oauth_callback: "idle", "awaiting" (in await client.post), "done"
    cbResp,       \* oauth_callback: the token response it received
    cbReply,      \* oauth_callback: the RedirectResponse it returned
    authReply,    \* get_auth_status: the reply in flight to its caller
    tenantCache,  \* _tenant_id_cache
    lock,         \* _tenant_id_lock: Free or the task holding it
    tpc,          \* get_organization_tenant_id per task: "idle", "acquire", "posting", "done"
    tret,         \* what each task's call returned or raised
    orgResp,      \* the companySelector response the last resolution received
    started,      \* number of get_organization_tenant_id invocations so far
    orgCalls,     \* number of companySelector requests sent upstream
    orgFails,     \* number of resolutions that ended in an exception after their request
    burst,        \* TRUE while the calls in progress are the first NumTasks calls, all
                  \* made while every other one was pending and the cache was empty
    spc,          \* the job search: "idle", "tenant" (in await get_organization_tenant_id),
                  \* "posting" (in client.post), "done"
    sreq,         \* the job search: the request body or the call arguments it was given
    sclient,      \* the job search: the config its client was built from
    ssent,        \* the job search: the organization header and variables it sent upstream
    sresp,        \* the job search: the upstream response it received
    sresult,      \* the job search: what search_upwork_jobs_gql returned or raised
    sreply,       \* POST /jobs/fetch: the HTTP reply
    searchLog     \* the search requests the upstream has received, in order: the
                  \* access token of the client and the organization header of each

vars == <<dotenv, environ, cbPc, cbResp, cbReply, authReply, tenantCache, lock, tpc, tret,
          orgResp, started, orgCalls, orgFails, burst,
          spc, sreq, sclient, ssent, sresp, sresult, sreply, searchLog>>

authVars == <<dotenv, environ, cbPc, cbResp, cbReply, authReply>>
tenantVars == <<tenantCache, lock, tpc, tret, orgResp, started, orgCalls, orgFails, burst>>
searchVars == <<spc, sreq, sclient, ssent, sresp, sresult, sreply, searchLog>>

\* ---- job search: the values before a search starts ----
NoClient ==
    [client_id |-> "-", client_secret |-> "-", redirect_uri |-> "-",
     token |-> [access_token |-> "-", refresh_token |-> "-"]]
NoSent == [sent |-> FALSE, org |-> "-", variables |-> EmptyDict]
NoResult == [raised |-> "-", value |-> EmptyDict]
NoSearchReply == [status_code |-> 0, detail |-> "-"]
SearchIdle ==
    /\ spc = "idle"
    /\ sreq = NoRequest
    /\ sclient = NoClient
    /\ ssent = NoSent
    /\ sresp = NoSearchResponse
    /\ sresult = NoResult
    /\ sreply = NoSearchReply
    /\ searchLog = << >>

\* ---- credential store ----
\* mutant: load_dotenv without override=True keeps the values os.environ already has
LoadDotenvNoOverride(env, file) ==
    [env EXCEPT
        !.UPWORK_ACCESS_TOKEN =
            IF @ = None /\ file.UPWORK_ACCESS_TOKEN # None THEN file.UPWORK_ACCESS_TOKEN ELSE @,
        !.UPWORK_REFRESH_TOKEN =
            IF @ = None /\ file.UPWORK_REFRESH_TOKEN # None THEN file.UPWORK_REFRESH_TOKEN ELSE @]

\* load_dotenv(dotenv_path, override=True): every key the file holds replaces the
\* value in os.environ; a key the file lacks leaves os.environ as it is
LoadDotenvOverride(env, file) ==
    [env EXCEPT
        !.UPWORK_ACCESS_TOKEN =
            IF file.UPWORK_ACCESS_TOKEN # None THEN file.UPWORK_ACCESS_TOKEN ELSE @,
        !.UPWORK_REFRESH_TOKEN =
            IF file.UPWORK_REFRESH_TOKEN # None THEN file.UPWORK_REFRESH_TOKEN ELSE @]

\* set_key(DOTENV_PATH, key, value) of python-dotenv formats the value with str
\* methods: a value that is None raises instead of writing
SetKeyRaises(value) == value = None

\* the tokens a process can find in .env when it starts: none, or those of an
\* earlier successful callback
InitialTokens == {<<None, None>>, <<"at0", "rt0">>}
DefaultTenantIds == {None, "orgD"}

Init ==
    /\ \E tk \in InitialTokens, d \in DefaultTenantIds :
          /\ dotenv = [UPWORK_ACCESS_TOKEN |-> tk[1], UPWORK_REFRESH_TOKEN |-> tk[2]]
          /\ environ = [UPWORK_ACCESS_TOKEN |-> tk[1], UPWORK_REFRESH_TOKEN |-> tk[2],
                        UPWORK_CLIENT_ID |-> "client_id",
                        UPWORK_CLIENT_SECRET |-> "client_secret",
                        UPWORK_REDIRECT_URI |-> "redirect_uri",
                        UPWORK_DEFAULT_TENANT_ID |-> d]
    /\ cbPc = "idle"
    /\ cbResp = NoTokenResponse
    /\ cbReply = NoReply
    /\ authReply = "-"
    /\ tenantCache = None
    /\ lock = Free
    /\ tpc = [t \in Tasks |-> "idle"]
    /\ tret = [t \in Tasks |-> "-"]
    /\ orgResp = [kind |-> "-", items |-> << >>]
    /\ started = 0
    /\ orgCalls = 0
    /\ orgFails = 0
    /\ burst = FALSE
    /\ SearchIdle

\* ---- GET /oauth/callback ----
\* the handler up to its only suspension point, await client.post(UPWORK_TOKEN_ENDPOINT)
CallbackStart ==
    /\ cbPc \in {"idle", "done"}
    /\ cbPc' = "awaiting"
    /\ cbResp' = NoTokenResponse
    /\ cbReply' = NoReply
    /\ UNCHANGED <<dotenv, environ, authReply>>
    /\ UNCHANGED tenantVars
    /\ UNCHANGED searchVars

\* mutant: only the access token is written
DotenvAccessOnly(file, access_token, refresh_token) ==
    [file EXCEPT !.UPWORK_ACCESS_TOKEN = access_token]

\* the .env file after the two set_key calls of a callback that got past the
\* access-token check: the first call writes, the second writes unless it raises
DotenvAfterSetKeys(file, access_token, refresh_token) ==
    [file EXCEPT
        !.UPWORK_ACCESS_TOKEN = access_token,
        !.UPWORK_REFRESH_TOKEN = IF SetKeyRaises(refresh_token) THEN @ ELSE refresh_token]

\* mutant: the access-token check tests for None only, so an empty token passes
CallbackStageNoneOnly(resp) ==
    IF resp.status = TransportError THEN "request_failed"
    ELSE IF RaisesForStatus(resp.status) THEN "http_status_error"
    ELSE IF ~resp.json THEN "json_failed"
    ELSE IF resp.access_token = None THEN "no_access_token"
    ELSE IF SetKeyRaises(resp.refresh_token) THEN "set_key_failed"
    ELSE "stored"

\* how far the try block of oauth_callback gets with a token response: client.post
\* raises, raise_for_status raises, response.json() raises, the access-token
\* check raises, the second set_key raises, or the tokens are stored and reloaded
CallbackStage(resp) ==
    IF resp.status = TransportError THEN "request_failed"
    ELSE IF RaisesForStatus(resp.status) THEN "http_status_error"
    ELSE IF ~resp.json THEN "json_failed"
    ELSE IF ~Truthy(resp.access_token) THEN "no_access_token"
    ELSE IF SetKeyRaises(resp.refresh_token) THEN "set_key_failed"
    ELSE "stored"

\* the RedirectResponse oauth_callback returns: the success redirect at the end of
\* the try block, the HTTPStatusError handler's redirect, or the generic one
CallbackReply(resp) ==
    IF CallbackStage(resp) = "stored" THEN SuccessRedirect
    ELSE IF CallbackStage(resp) = "http_status_error"
        THEN ErrorRedirect("HTTP_Error_" \o ToString(resp.status))
    ELSE ErrorRedirect("Failed_to_get_tokens")

\* TRUE when the handler reaches the set_key calls
CallbackWrites(resp) == CallbackStage(resp) \in {"set_key_failed", "stored"}

\* the rest of the handler, from the token response to the redirect; it has no
\* further await, so it runs as one step
CallbackResponse(resp) ==
    /\ cbPc = "awaiting"
    /\ cbPc' = "done"
    /\ cbResp' = resp
    /\ cbReply' = CallbackReply(resp)
    /\ dotenv' = IF CallbackWrites(resp)
                   THEN DotenvAfterSetKeys(dotenv, resp.access_token, resp.refresh_token)
                   ELSE dotenv
    /\ environ' = IF CallbackStage(resp) = "stored"
                    THEN LoadDotenvOverride(environ, dotenv')
                    ELSE environ
    /\ UNCHANGED authReply
    /\ UNCHANGED tenantVars
    /\ UNCHANGED searchVars

\* ---- GET /auth/status ----
\* bool(access_token and refresh_token)
Authenticated(access_token, refresh_token) ==
    Truthy(access_token) /\ Truthy(refresh_token)

GetAuthStatus ==
    /\ authReply = "-"
    /\ environ' = LoadDotenvOverride(environ, dotenv)
    /\ authReply' = IF Authenticated(environ'.UPWORK_ACCESS_TOKEN, environ'.UPWORK_REFRESH_TOKEN)
                      THEN "true" ELSE "false"
    /\ UNCHANGED <<dotenv, cbPc, cbResp, cbReply>>
    /\ UNCHANGED tenantVars
    /\ UNCHANGED searchVars

\* the caller of /auth/status takes the reply
AuthStatusDelivered ==
    /\ authReply # "-"
    /\ authReply' = "-"
    /\ UNCHANGED <<dotenv, environ, cbPc, cbResp, cbReply>>
    /\ UNCHANGED tenantVars
    /\ UNCHANGED searchVars

\* ---- get_authenticated_client ----
\* mutant: the refresh token is not required
HasCredentialsNoRefresh(env) ==
    /\ Truthy(env.UPWORK_ACCESS_TOKEN)
    /\ Truthy(env.UPWORK_CLIENT_ID)
    /\ Truthy(env.UPWORK_CLIENT_SECRET)
    /\ Truthy(env.UPWORK_REDIRECT_URI)

\* mutant: the redirect URI is not required
HasCredentialsNoRedirect(env) ==
    /\ Truthy(env.UPWORK_ACCESS_TOKEN)
    /\ Truthy(env.UPWORK_REFRESH_TOKEN)
    /\ Truthy(env.UPWORK_CLIENT_ID)
    /\ Truthy(env.UPWORK_CLIENT_SECRET)

\* all([access_token, refresh_token, client_id, client_secret, redirect_uri])
HasCredentials(env) ==
    /\ Truthy(env.UPWORK_ACCESS_TOKEN)
    /\ Truthy(env.UPWORK_REFRESH_TOKEN)
    /\ Truthy(env.UPWORK_CLIENT_ID)
    /\ Truthy(env.UPWORK_CLIENT_SECRET)
    /\ Truthy(env.UPWORK_REDIRECT_URI)

\* ---- get_organization_tenant_id ----
\* mutant: the resolver without its lock
LockFreeNoLock == TRUE

\* mutant: the lock can never be taken
LockNeverFree == FALSE

\* async with _tenant_id_lock: the lock can be taken when no task holds it
LockFree == lock = Free

\* mutant: the cached value is never used
CacheHitNever(cache) == FALSE

\* if _tenant_id_cache: return _tenant_id_cache
CacheHit(cache) == Truthy(cache)

\* mutant: a falsy response is handled like an empty organization list (the default
\* tenant id is cached) instead of raising
ResolveOutcomeEmptyAsNoItems(resp, default_tenant_id) ==
    IF resp.kind \in {"raise", "unparsable"} THEN "ConnectionError"
    ELSE IF resp.items = << >>
        THEN IF Truthy(default_tenant_id) THEN default_tenant_id ELSE "ConnectionError"
    ELSE IF Truthy(resp.items[1]) THEN resp.items[1]
    ELSE "ConnectionError"

\* mutant: the id of the last organization is taken
ResolveOutcomeLastOrganization(resp, default_tenant_id) ==
    IF resp.kind # "data" THEN "ConnectionError"
    ELSE IF resp.items = << >>
        THEN IF Truthy(default_tenant_id) THEN default_tenant_id ELSE "ConnectionError"
    ELSE IF Truthy(resp.items[Len(resp.items)]) THEN resp.items[Len(resp.items)]
    ELSE "ConnectionError"

\* the body of the try block for one companySelector response: the tenant id it
\* returns, or the ConnectionError every exception in it is wrapped in
ResolveOutcome(resp, default_tenant_id) ==
    IF resp.kind # "data" THEN "ConnectionError"
    ELSE IF resp.items = << >>
        THEN IF Truthy(default_tenant_id) THEN default_tenant_id ELSE "ConnectionError"
    ELSE IF Truthy(resp.items[1]) THEN resp.items[1]
    ELSE "ConnectionError"

IsError(result) == result \in {"ValueError", "ConnectionError"}

\* mutant: a ConnectionError falls through to the last except clause
HttpStatusForNoConnection(exc) ==
    IF exc = "ValueError" THEN 401
    ELSE IF exc = "NotImplementedError" THEN 501
    ELSE 500

\* the except clauses of fetch_jobs: the HTTP status an exception is answered with
HttpStatusFor(exc) ==
    IF exc = "ValueError" THEN 401
    ELSE IF exc = "ConnectionError" THEN 503
    ELSE IF exc = "NotImplementedError" THEN 501
    ELSE 500

\* a request task calls get_organization_tenant_id and reaches the lock
TenantCall(t) ==
    /\ tpc[t] \in {"idle", "done"}
    /\ started < MaxCalls
    /\ started' = started + 1
    /\ tpc' = [tpc EXCEPT ![t] = "acquire"]
    /\ tret' = [tret EXCEPT ![t] = "-"]
    /\ burst' = (/\ started' = NumTasks
                 /\ tenantCache = None
                 /\ \A u \in Tasks \ {t} : tpc[u] \in {"acquire", "posting"})
    /\ UNCHANGED <<tenantCache, lock, orgResp, orgCalls, orgFails>>
    /\ UNCHANGED authVars
    /\ UNCHANGED searchVars

\* the task takes the lock and runs up to client.post: a cache hit returns, missing
\* credentials raise ValueError (both release the lock), otherwise the request goes
\* upstream with the lock held. upwork.Client(upwork.Config(config)) is taken to
\* succeed on five non-empty strings. client.post is a blocking call; the other
\* handlers may take steps while it is outstanding, so that it is the lock, not the
\* event loop, that keeps a second resolution out.
TenantEnter(t) ==
    /\ tpc[t] = "acquire"
    /\ LockFree
    /\ IF CacheHit(tenantCache)
         THEN /\ tpc' = [tpc EXCEPT ![t] = "done"]
              /\ tret' = [tret EXCEPT ![t] = tenantCache]
              /\ UNCHANGED <<lock, orgCalls>>
       ELSE IF ~HasCredentials(environ)
         THEN /\ tpc' = [tpc EXCEPT ![t] = "done"]
              /\ tret' = [tret EXCEPT ![t] = "ValueError"]
              /\ UNCHANGED <<lock, orgCalls>>
       ELSE /\ tpc' = [tpc EXCEPT ![t] = "posting"]
            /\ lock' = t
            /\ orgCalls' = orgCalls + 1
            /\ UNCHANGED tret
    /\ UNCHANGED <<tenantCache, orgResp, started, orgFails, burst>>
    /\ UNCHANGED authVars
    /\ UNCHANGED searchVars

\* client.post returns or raises; the task caches and returns the tenant id or
\* raises ConnectionError, and leaves the async with block
TenantResponse(t, resp) ==
    /\ tpc[t] = "posting"
    /\ LET out == ResolveOutcome(resp, environ.UPWORK_DEFAULT_TENANT_ID) IN
          /\ tret' = [tret EXCEPT ![t] = out]
          /\ tenantCache' = IF IsError(out) THEN tenantCache ELSE out
          /\ orgFails' = IF IsError(out) THEN orgFails + 1 ELSE orgFails
    /\ tpc' = [tpc EXCEPT ![t] = "done"]
    /\ orgResp' = resp
    /\ lock' = Free
    /\ UNCHANGED <<started, orgCalls, burst>>
    /\ UNCHANGED authVars
    /\ UNCHANGED searchVars

\* ---- job search: get_authenticated_client ----
\* the config dict upwork.Config is built from
Config(env) ==
    [client_id |-> env.UPWORK_CLIENT_ID, client_secret |-> env.UPWORK_CLIENT_SECRET,
     redirect_uri |-> env.UPWORK_REDIRECT_URI,
     token |-> [access_token |-> env.UPWORK_ACCESS_TOKEN,
                refresh_token |-> env.UPWORK_REFRESH_TOKEN]]
\* what a call returns or raises: raised is the exception, None when it returned
Returned(value) == [raised |-> None, value |-> value]
Raised(exc) == [raised |-> exc, value |-> EmptyDict]
\* get_authenticated_client(): ValueError unless all five values are truthy,
\* else the client of the config read from os.environ at this moment
GetAuthenticatedClient(env) ==
    IF ~HasCredentials(env) THEN Raised("ValueError") ELSE Returned(Config(env))

\* ---- job search: the variables of the GraphQL request ----
\* first of the signature: the default when the caller passes none
BindFirst(first) == IF first = NoFirst THEN FirstDefault ELSE first
StrEach(ids) == [i \in 1..Len(ids) |-> Str(ids[i])]
\* backend/upwork_api.py: market_place_filter from query and category_ids
BackendFilter(query, category_ids) ==
    (IF Truthy(query) THEN Dict1("searchExpression_eq", query) ELSE EmptyDict)
    @@ (IF TruthyList(category_ids)
        THEN Dict1("categoryIds_any", StrEach(category_ids)) ELSE EmptyDict)
\* examples/example/myapp.py: the one clause chosen by if / elif / elif
ExampleClause(query, category_ids, locations) ==
    IF TruthyList(locations) THEN Dict1("locations_any", locations)
    ELSE IF Truthy(query) THEN Dict1("searchExpression_eq", query)
    ELSE IF TruthyList(category_ids) THEN Dict1("categoryIds_any", StrEach(category_ids))
    ELSE EmptyDict
\* mutant: after is always attached
PaginationFilterAlwaysAfter(first, after) == Dict1("first", first) @@ Dict1("after", after)

\* pagination_filter = {"first": first}, with "after" only if after is truthy
PaginationFilter(first, after) ==
    Dict1("first", first) @@ (IF Truthy(after) THEN Dict1("after", after) ELSE EmptyDict)
\* examples/example/myapp.py: variables["marketPlaceJobFilter"]
ExampleFilter(query, category_ids, locations, first, after) ==
    LET clause == ExampleClause(query, category_ids, locations)
        filter_applied == clause # EmptyDict
    IN  IF filter_applied
        THEN clause @@ Dict1("pagination_eq", PaginationFilter(first, after))
        ELSE EmptyDict
Variables(filter) ==
    [marketPlaceJobFilter |-> filter, searchType |-> "USER_JOBS_SEARCH",
     sortAttributes |-> <<[field |-> "RECENCY"]>>]
\* JobSearchRequest: the model of the request body keeps query and category_ids
\* and has no other field
JobSearchRequest(body) == [query |-> body.query, category_ids |-> body.category_ids]
\* the variables a search sends: fetch_jobs passes the two fields of its
\* JobSearchRequest to backend/upwork_api.py; the example is called directly
SearchVariables(req) ==
    IF req.via = "fetch_jobs"
    THEN LET search_request == JobSearchRequest(req)
         IN  Variables(BackendFilter(search_request.query, search_request.category_ids))
    ELSE Variables(ExampleFilter(req.query, req.category_ids, req.locations,
                                 BindFirst(req.first), req.after))

\* ---- job search: the response normaliser ----
\* mutant: the legacy id is taken from the title
JobRecordIdFromTitle(node) ==
    [title |-> node.title, id |-> node.title, ciphertext |-> node.ciphertext,
     skills |-> IF node.skills = Obj THEN SelectSeq(node.names, Truthy) ELSE << >>,
     job_type |-> IF node.job = Obj /\ node.contractTerms = Obj
                  THEN node.contractType ELSE None,
     workload |-> None,
     client |-> [country |-> IF node.client = Obj /\ node.location = Obj
                             THEN node.country ELSE None]]

\* the job dict built from one node, when building it raises nothing: .get of a
\* missing key gives None, the skills entries without a name are dropped
JobRecord(node) ==
    [title |-> node.title, id |-> node.ciphertext, ciphertext |-> node.ciphertext,
     skills |-> IF node.skills = Obj THEN SelectSeq(node.names, Truthy) ELSE << >>,
     job_type |-> IF node.job = Obj /\ node.contractTerms = Obj
                  THEN node.contractType ELSE None,
     workload |-> None,
     client |-> [country |-> IF node.client = Obj /\ node.location = Obj
                             THEN node.country ELSE None]]
\* examples/example/myapp.py: job, contractTerms, client and location go through
\* `or {}`; node.get('skills', []) gives None for a null skills, and iterating
\* None raises TypeError
NodeRaisesExample(node) == node.skills = Null
\* backend/upwork_api.py: node.get(k, {}).get(...) calls .get on None when the
\* nested object is null (AttributeError); a null skills raises TypeError
NodeRaisesBackend(node) ==
    \/ node.job = Null
    \/ node.job = Obj /\ node.contractTerms = Null
    \/ node.client = Null
    \/ node.client = Obj /\ node.location = Null
    \/ node.skills = Null
TransformedJobs(edges) == [i \in 1..Len(edges) |-> JobRecord(edges[i])]
PagingInfo(resp) ==
    [total |-> resp.totalCount, next_cursor |-> resp.endCursor,
     has_next_page |-> resp.hasNextPage]
ZeroPaging == [total |-> 0, next_cursor |-> None, has_next_page |-> FALSE]
\* the result the example returns for a handled upstream error
Degraded(error_message) ==
    [jobs |-> << >>, paging |-> ZeroPaging, error_message |-> error_message]

\* mutant: the message of the last upstream error
LastErrorMessage(errors) ==
    IF errors[Len(errors)] = None THEN "Unknown API error" ELSE errors[Len(errors)]

\* gql_response['errors'][0].get('message', 'Unknown API error')
FirstErrorMessage(errors) == IF errors[1] = None THEN "Unknown API error" ELSE errors[1]

\* examples/example/myapp.py, from the response of client.post to the return or
\* raise of search_upwork_jobs_gql: an exception that is no ValueError and no
\* ConnectionError (the transport's, AttributeError of None.get, TypeError) is
\* wrapped into ConnectionError
ExampleOutcome(resp) ==
    IF resp.kind \in {"raise", "none"} THEN Raised("ConnectionError")
    ELSE IF resp.errors # NoErrors
         THEN Returned(Degraded("Upwork API Error: " \o FirstErrorMessage(resp.errors)))
    ELSE IF resp.data = Null THEN Raised("ConnectionError")
    ELSE IF resp.data = Absent \/ resp.result # Obj
         THEN Returned(Degraded("API returned null results."))
    ELSE IF \E i \in 1..Len(resp.edges) : NodeRaisesExample(resp.edges[i])
         THEN Raised("ConnectionError")
    ELSE Returned([jobs |-> TransformedJobs(resp.edges), paging |-> PagingInfo(resp)])

\* backend/upwork_api.py: a falsy response (None or {}) raises ValueError, which is
\* re-raised; every other exception is wrapped into ConnectionError
BackendOutcome(resp) ==
    IF resp.kind = "raise" THEN Raised("ConnectionError")
    ELSE IF resp.kind = "none" \/ (resp.errors = NoErrors /\ resp.data = Absent)
         THEN Raised("ValueError")
    ELSE IF resp.data = Null THEN Raised("ConnectionError")
    ELSE IF resp.data = Absent \/ resp.result # Obj
         THEN Returned([jobs |-> << >>, paging |-> EmptyDict])
    ELSE IF \E i \in 1..Len(resp.edges) : NodeRaisesBackend(resp.edges[i])
         THEN Raised("ConnectionError")
    ELSE Returned([jobs |-> TransformedJobs(resp.edges), paging |-> PagingInfo(resp)])

SearchOutcome(req, resp) ==
    IF req.via = "fetch_jobs" THEN BackendOutcome(resp) ELSE ExampleOutcome(resp)

\* JSONResponse answers with its default status code
OkStatus == 200
\* fetch_jobs: the JSONResponse of the result, or the HTTPException of the except
\* clause the exception reaches; a direct call of the example has no HTTP reply
FetchJobsReply(req, result) ==
    IF req.via # "fetch_jobs" THEN NoSearchReply
    ELSE IF result.raised = None THEN [status_code |-> OkStatus, detail |-> "-"]
    ELSE [status_code |-> HttpStatusFor(result.raised),
          detail |-> IF result.raised \in {"ValueError", "ConnectionError", "NotImplementedError"}
                     THEN "str(e)" ELSE "Internal server error fetching jobs."]

\* ---- job search: the steps of one search ----
\* the task in which the search runs
SearchTask == 1
\* search_upwork_jobs_gql up to its first await: the client is built, then
\* get_organization_tenant_id is called; a missing credential ends the search
\* (and fetch_jobs) here
SearchStart(req) ==
    /\ spc = "idle"
    /\ tpc[SearchTask] = "idle"
    /\ sreq' = req
    /\ LET client == GetAuthenticatedClient(environ)
       IN  IF client.raised # None
           THEN /\ sclient' = NoClient
                /\ sresult' = Raised(client.raised)
                /\ sreply' = FetchJobsReply(req, Raised(client.raised))
                /\ spc' = "done"
                /\ UNCHANGED <<tpc, tret, started>>
           ELSE /\ sclient' = client.value
                /\ spc' = "tenant"
                /\ tpc' = [tpc EXCEPT ![SearchTask] = "acquire"]
                /\ tret' = [tret EXCEPT ![SearchTask] = "-"]
                /\ started' = started + 1
                /\ UNCHANGED <<sresult, sreply>>
    /\ UNCHANGED <<ssent, sresp, searchLog>>
    /\ UNCHANGED <<tenantCache, lock, orgResp, orgCalls, orgFails, burst>>
    /\ UNCHANGED authVars

\* get_organization_tenant_id has returned or raised: its exception leaves the
\* search; else the organization header is set and the request is sent
SearchPost ==
    /\ spc = "tenant"
    /\ tpc[SearchTask] = "done"
    /\ IF IsError(tret[SearchTask])
       THEN /\ sresult' = Raised(tret[SearchTask])
            /\ sreply' = FetchJobsReply(sreq, Raised(tret[SearchTask]))
            /\ spc' = "done"
            /\ UNCHANGED <<ssent, searchLog>>
       ELSE /\ ssent' = [sent |-> TRUE, org |-> tret[SearchTask],
                         variables |-> SearchVariables(sreq)]
            /\ searchLog' = Append(searchLog,
                                   [access_token |-> sclient.token.access_token,
                                    org |-> tret[SearchTask]])
            /\ spc' = "posting"
            /\ UNCHANGED <<sresult, sreply>>
    /\ UNCHANGED <<sreq, sclient, sresp>>
    /\ UNCHANGED tenantVars
    /\ UNCHANGED authVars

\* client.post returns or raises; the search returns its result or raises, and
\* fetch_jobs answers
SearchReceive(resp) ==
    /\ spc = "posting"
    /\ sresp' = resp
    /\ sresult' = SearchOutcome(sreq, resp)
    /\ sreply' = FetchJobsReply(sreq, SearchOutcome(sreq, resp))
    /\ spc' = "done"
    /\ UNCHANGED <<sreq, sclient, ssent, searchLog>>
    /\ UNCHANGED tenantVars
    /\ UNCHANGED authVars

Next ==
    \/ CallbackStart
    \/ \E resp \in TokenResponses : CallbackResponse(resp)
    \/ GetAuthStatus
    \/ AuthStatusDelivered
    \/ \E t \in Tasks : TenantCall(t)
    \/ \E t \in Tasks : TenantEnter(t)
    \/ \E t \in Tasks, resp \in OrgResponses : TenantResponse(t, resp)

Spec == Init /\ [][Next]_vars

\* ---- one job search over every credential set ----
CredentialKeys ==
    {"UPWORK_ACCESS_TOKEN", "UPWORK_REFRESH_TOKEN", "UPWORK_CLIENT_ID",
     "UPWORK_CLIENT_SECRET", "UPWORK_REDIRECT_URI"}
FullCredentials ==
    [UPWORK_ACCESS_TOKEN |-> "at0", UPWORK_REFRESH_TOKEN |-> "rt0",
     UPWORK_CLIENT_ID |-> "client_id", UPWORK_CLIENT_SECRET |-> "client_secret",
     UPWORK_REDIRECT_URI |-> "redirect_uri"]
\* all five present, or one of them absent or empty
CredentialSets ==
    {FullCredentials}
    \cup {[FullCredentials EXCEPT ![k] = v] : k \in CredentialKeys, v \in {None, ""}}

InitSearch ==
    /\ \E cred \in CredentialSets, d \in DefaultTenantIds :
          /\ dotenv = [UPWORK_ACCESS_TOKEN |-> cred.UPWORK_ACCESS_TOKEN,
                       UPWORK_REFRESH_TOKEN |-> cred.UPWORK_REFRESH_TOKEN]
          /\ environ = [k \in CredentialKeys \cup {"UPWORK_DEFAULT_TENANT_ID"} |->
                          IF k = "UPWORK_DEFAULT_TENANT_ID" THEN d ELSE cred[k]]
    /\ cbPc = "idle"
    /\ cbResp = NoTokenResponse
    /\ cbReply = NoReply
    /\ authReply = "-"
    /\ tenantCache = None
    /\ lock = Free
    /\ tpc = [t \in Tasks |-> "idle"]
    /\ tret = [t \in Tasks |-> "-"]
    /\ orgResp = [kind |-> "-", items |-> << >>]
    /\ started = 0
    /\ orgCalls = 0
    /\ orgFails = 0
    /\ burst = FALSE
    /\ SearchIdle

NextSearch ==
    \/ \E req \in SearchRequests : SearchStart(req)
    \/ TenantEnter(SearchTask)
    \/ \E resp \in OrgResponses : TenantResponse(SearchTask, resp)
    \/ SearchPost
    \/ \E resp \in SearchResponses : SearchReceive(resp)

SpecSearch == InitSearch /\ [][NextSearch]_vars

\* ---- the server: callbacks, /auth/status and successive job searches ----
MaxSearches == 2   \* search requests sent upstream in one run
\* the searches of the server runs: a keyword search through each entry point
ServerRequests == {r \in SearchRequests :
                      /\ r.query = "python" /\ r.category_ids = << >> /\ r.locations = << >>
                      /\ r.first = NoFirst /\ r.after = None}
\* their upstream answers: a transport failure, an empty response, one job
ServerResponses ==
    {r \in SearchResponses :
        \/ r.kind \in {"raise", "none"}
        \/ r.kind = "body" /\ r.result = Obj /\ r.edges = <<FullNode>>}

\* search_upwork_jobs_gql (and fetch_jobs) has returned or raised: the task ends,
\* and a later request starts the next search
SearchReturn ==
    /\ spc = "done"
    /\ Len(searchLog) < MaxSearches
    /\ started < MaxCalls
    /\ spc' = "idle"
    /\ sreq' = NoRequest
    /\ sclient' = NoClient
    /\ ssent' = NoSent
    /\ sresp' = NoSearchResponse
    /\ sresult' = NoResult
    /\ sreply' = NoSearchReply
    /\ tpc' = [tpc EXCEPT ![SearchTask] = "idle"]
    /\ tret' = [tret EXCEPT ![SearchTask] = "-"]
    /\ UNCHANGED searchLog
    /\ UNCHANGED <<tenantCache, lock, orgResp, started, orgCalls, orgFails, burst>>
    /\ UNCHANGED authVars

NextServer ==
    \/ CallbackStart
    \/ \E resp \in TokenResponses : CallbackResponse(resp)
    \/ GetAuthStatus
    \/ AuthStatusDelivered
    \/ \E req \in ServerRequests : SearchStart(req)
    \/ TenantEnter(SearchTask)
    \/ \E resp \in OrgResponses : TenantResponse(SearchTask, resp)
    \/ SearchPost
    \/ \E resp \in ServerResponses : SearchReceive(resp)
    \/ SearchReturn

SpecServer == Init /\ [][NextServer]_vars

\* ---- the tenant resolver alone, with its scheduling ----
NextTenant ==
    \/ \E t \in Tasks : TenantCall(t)
    \/ \E t \in Tasks : TenantEnter(t)
    \/ \E t \in Tasks, resp \in OrgResponses : TenantResponse(t, resp)

\* asyncio.Lock wakes its waiters in the order they arrived, so a waiter is not
\* passed over for ever (strong fairness of taking the lock); and every upstream
\* call is taken to return or fail in the end (weak fairness of the response)
SpecTenantFair ==
    /\ InitSearch
    /\ [][NextTenant]_vars
    /\ \A t \in Tasks : SF_vars(TenantEnter(t))
    /\ \A t \in Tasks : WF_vars(\E resp \in OrgResponses : TenantResponse(t, resp))

\* ---- the claims ----
AllDone == \A t \in Tasks : tpc[t] = "done"
Posting == {t \in Tasks : tpc[t] = "posting"}

\* C1 as stated: when the first NumTasks calls of get_organization_tenant_id are made
\* concurrently on an empty cache and have all ended, exactly one companySelector
\* request was sent and every caller holds the same tenant id. (Stated for the
\* callers that found the credentials: without them no request is sent at all.)
C1_ExactlyOneCall ==
    (burst /\ AllDone /\ \A t \in Tasks : tret[t] # "ValueError") =>
        /\ orgCalls = 1
        /\ \A t \in Tasks : ~IsError(tret[t]) /\ tret[t] = tret[1]

\* C1 as amended: the requests go upstream one at a time and at most one of them
\* resolves an id (requests sent = failed resolutions + the one that filled the cache
\* + the one in flight); every caller that got an id got the cached one; and when no
\* concurrent caller ended in an error, exactly one request was sent.
C1_OneCallPerAttempt ==
    /\ Cardinality(Posting) <= 1
    /\ orgCalls = orgFails + (IF Truthy(tenantCache) THEN 1 ELSE 0) + Cardinality(Posting)
    /\ \A t \in Tasks : (tpc[t] = "done" /\ ~IsError(tret[t])) => tret[t] = tenantCache
    /\ (burst /\ AllDone /\ \A t \in Tasks : ~IsError(tret[t])) => orgCalls = 1

\* C1 witness: the concurrent first callers have all returned the same id after one request
C1_Witness ==
    /\ burst
    /\ AllDone
    /\ orgCalls = 1
    /\ \A t \in Tasks : tret[t] = tenantCache /\ Truthy(tenantCache)

\* C2: once _tenant_id_cache holds a value, no step changes it, no step sends a
\* companySelector request, and every call that gets the lock returns that value.
C2_CachedValueIsFinal ==
    [][Truthy(tenantCache) =>
          /\ tenantCache' = tenantCache
          /\ orgCalls' = orgCalls
          /\ \A t \in Tasks :
                (tpc[t] = "acquire" /\ tpc'[t] # "acquire") =>
                    (tpc'[t] = "done" /\ tret'[t] = tenantCache)]_vars

\* C2 witness: a call made after the cache was filled returned the cached id, with
\* one request sent in all and the stored tokens replaced by a callback meanwhile
C2_Witness ==
    /\ Truthy(tenantCache)
    /\ started = MaxCalls
    /\ orgCalls = 1
    /\ AllDone
    /\ \A t \in Tasks : tret[t] = tenantCache
    /\ cbReply = SuccessRedirect

\* the companySelector responses C3 names: the call raises, the response is empty,
\* it cannot be parsed, or its first organization has no id
FailingOrgResponses ==
    {r \in OrgResponses :
        \/ r.kind \in {"raise", "empty", "unparsable"}
        \/ (r.kind = "data" /\ r.items # << >> /\ ~Truthy(r.items[1]))}

\* C3: a resolution whose upstream call fails raises ConnectionError (answered with
\* 503), leaves the cache empty and releases the lock; and a call that gets the lock
\* after a failure, with the cache empty and the credentials present, sends a fresh
\* companySelector request.
C3_FailureLeavesCacheEmpty ==
    [][\A t \in Tasks :
          /\ (tpc[t] = "posting" /\ tpc'[t] = "done" /\ orgResp' \in FailingOrgResponses) =>
                /\ tret'[t] = "ConnectionError"
                /\ HttpStatusFor(tret'[t]) = 503
                /\ tenantCache' = None
                /\ lock' = Free
          /\ (/\ tpc[t] = "acquire" /\ tpc'[t] # "acquire"
              /\ orgFails >= 1 /\ tenantCache = None /\ HasCredentials(environ)) =>
                (tpc'[t] = "posting" /\ orgCalls' = orgCalls + 1)]_vars

\* C3 witness: one caller holds ConnectionError from a failed resolution, and a
\* later caller's fresh request resolved and cached an id
C3_Witness ==
    /\ orgFails = 1
    /\ orgCalls = 2
    /\ Truthy(tenantCache)
    /\ \E t, u \in Tasks : tret[t] = "ConnectionError" /\ tret[u] = tenantCache

\* C4 as stated: in the .env file and in os.environ the access token and the refresh
\* token are both present or both absent.
C4_TokensBothOrNeither ==
    /\ (dotenv.UPWORK_ACCESS_TOKEN # None) <=> (dotenv.UPWORK_REFRESH_TOKEN # None)
    /\ (environ.UPWORK_ACCESS_TOKEN # None) <=> (environ.UPWORK_REFRESH_TOKEN # None)

\* C5: a callback whose token request was answered with a non-2xx status ends in a
\* redirect (no 5xx) to the front-end with auth_status=error and the message
\* HTTP_Error_<status>.
C5_HttpErrorRedirect ==
    (cbPc = "done" /\ cbResp.status # TransportError /\ cbResp.status \div 100 # 2) =>
        /\ cbReply.status_code = RedirectStatus
        /\ cbReply.to = "FRONTEND_URL"
        /\ cbReply.auth_status = "error"
        /\ cbReply.message = "HTTP_Error_" \o ToString(cbResp.status)

\* C5 witness: the callback has answered an upstream 502
C5_Witness ==
    /\ cbPc = "done"
    /\ cbResp.status = 502
    /\ cbReply.message = "HTTP_Error_502"

\* C6: every callback ends in a redirect to the front-end that carries either
\* auth_status=success&refresh=true or auth_status=error and a message; in the step
\* that produces the success redirect, .env and os.environ hold both tokens of the
\* token response.
C6_RedirectAfterStore ==
    [][(cbPc = "awaiting" /\ cbPc' = "done") =>
          /\ cbReply'.status_code = RedirectStatus
          /\ cbReply'.to = "FRONTEND_URL"
          /\ \/ cbReply'.auth_status = "success" /\ cbReply'.refresh = "true"
             \/ cbReply'.auth_status = "error" /\ cbReply'.message # "-"
          /\ cbReply'.auth_status = "success" =>
                /\ dotenv'.UPWORK_ACCESS_TOKEN = cbResp'.access_token
                /\ dotenv'.UPWORK_REFRESH_TOKEN = cbResp'.refresh_token
                /\ environ'.UPWORK_ACCESS_TOKEN = cbResp'.access_token
                /\ environ'.UPWORK_REFRESH_TOKEN = cbResp'.refresh_token
                /\ Truthy(cbResp'.access_token)]_vars

\* C6 witness: a callback has redirected with success and both new tokens are in
\* .env and in os.environ
C6_Witness ==
    /\ cbPc = "done"
    /\ cbReply = SuccessRedirect
    /\ dotenv.UPWORK_ACCESS_TOKEN = "at1" /\ dotenv.UPWORK_REFRESH_TOKEN = "rt1"
    /\ environ.UPWORK_ACCESS_TOKEN = "at1" /\ environ.UPWORK_REFRESH_TOKEN = "rt1"

\* C7 as stated: a 2xx token response with an access_token and no refresh_token ends
\* in the success redirect, with the access token stored and an empty string stored
\* as the refresh token.
C7_MissingRefreshTolerated ==
    (/\ cbPc = "done" /\ cbResp.status = 200 /\ cbResp.json
     /\ Truthy(cbResp.access_token) /\ cbResp.refresh_token = None) =>
        /\ cbReply = SuccessRedirect
        /\ dotenv.UPWORK_ACCESS_TOKEN = cbResp.access_token
        /\ dotenv.UPWORK_REFRESH_TOKEN = ""

\* C8: a 2xx token response without an access_token ends, like an upstream HTTP
\* error, in a redirect with auth_status=error, and the step writes nothing to .env
\* or to os.environ.
C8_NoAccessTokenIsFailure ==
    [][(/\ cbPc = "awaiting" /\ cbPc' = "done"
        /\ cbResp'.status = 200 /\ cbResp'.json /\ ~Truthy(cbResp'.access_token)) =>
          /\ cbReply'.status_code = RedirectStatus
          /\ cbReply'.auth_status = "error"
          /\ dotenv' = dotenv
          /\ environ' = environ]_vars

\* C8 witness: the callback has answered a 2xx body that has a refresh_token and no
\* access_token, with earlier tokens still stored
C8_Witness ==
    /\ cbPc = "done"
    /\ cbResp.status = 200 /\ cbResp.json
    /\ cbResp.access_token = None /\ cbResp.refresh_token = "rt1"
    /\ cbReply.auth_status = "error"
    /\ dotenv.UPWORK_ACCESS_TOKEN = "at0"

\* C9 as stated: /auth/status answers false while no access token is stored, and
\* answers true when the last callback ended in the success redirect.
C9_StatusFollowsTokenWrite ==
    [][(authReply = "-" /\ authReply' # "-") =>
          /\ (~Truthy(dotenv.UPWORK_ACCESS_TOKEN) /\ ~Truthy(environ.UPWORK_ACCESS_TOKEN)) =>
                authReply' = "false"
          /\ (cbPc = "done" /\ cbReply = SuccessRedirect) => authReply' = "true"]_vars

\* C10 as stated: /auth/status answers true exactly when the access token it holds
\* after its reload is non-empty.
C10_StatusIffAccessToken ==
    [][(authReply = "-" /\ authReply' # "-") =>
          (authReply' = "true" <=> Truthy(environ'.UPWORK_ACCESS_TOKEN))]_vars

\* ---- claims about the job search (checked under SpecSearch) ----
Missing(env) == {k \in CredentialKeys : env[k] \in {None, ""}}
SentFilter == ssent.variables.marketPlaceJobFilter
ClauseKeys == {"locations_any", "searchExpression_eq", "categoryIds_any"}
AnyFilterGiven(req) ==
    TruthyList(req.locations) \/ Truthy(req.query) \/ TruthyList(req.category_ids)

\* C11: with one of the five credentials absent or empty, get_authenticated_client
\* raises ValueError and nothing is sent upstream (no companySelector request, no
\* search request); with all five present the client is built from exactly the
\* five values os.environ holds.
C11_ClientNeedsAllFive ==
    spc # "idle" =>
        IF Missing(environ) # {}
        THEN /\ sresult.raised = "ValueError"
             /\ sclient = NoClient
             /\ orgCalls = 0
             /\ ~ssent.sent
        ELSE sclient =
                [client_id |-> environ.UPWORK_CLIENT_ID,
                 client_secret |-> environ.UPWORK_CLIENT_SECRET,
                 redirect_uri |-> environ.UPWORK_REDIRECT_URI,
                 token |-> [access_token |-> environ.UPWORK_ACCESS_TOKEN,
                            refresh_token |-> environ.UPWORK_REFRESH_TOKEN]]

\* a search that stopped at the client factory because the redirect URI is absent
C11_Witness ==
    /\ spc = "done"
    /\ environ.UPWORK_REDIRECT_URI = None
    /\ sresult.raised = "ValueError"
    /\ orgCalls = 0

\* C12: the filter sent upstream holds at most one of the three clauses, the one
\* the precedence location > keyword > category selects among the arguments the
\* search function was given (backend/upwork_api.py is given no locations).
C12_OneClauseByPrecedence ==
    (ssent.sent /\ (sreq.via = "example" \/ ~TruthyList(sreq.locations))) =>
        DOMAIN SentFilter \cap ClauseKeys =
            IF TruthyList(sreq.locations) THEN {"locations_any"}
            ELSE IF Truthy(sreq.query) THEN {"searchExpression_eq"}
            ELSE IF TruthyList(sreq.category_ids) THEN {"categoryIds_any"}
            ELSE {}

\* C13 as stated: without any filter argument the example sends the empty filter;
\* with one, the filter carries pagination_eq with first (50 by default) and
\* always with an after entry.
C13_PaginationAlwaysHasAfter ==
    (ssent.sent /\ sreq.via = "example") =>
        IF ~AnyFilterGiven(sreq) THEN SentFilter = EmptyDict
        ELSE /\ "pagination_eq" \in DOMAIN SentFilter
             /\ SentFilter.pagination_eq.first =
                    (IF sreq.first = NoFirst THEN 50 ELSE sreq.first)
             /\ "after" \in DOMAIN SentFilter.pagination_eq

\* C13 amended: without any filter argument the example sends the empty filter;
\* with one, the filter carries pagination_eq with first (50 by default), and
\* with after exactly when the caller gave a cursor, which is then the value sent.
C13_AfterOnlyWithCursor ==
    (ssent.sent /\ sreq.via = "example") =>
        IF ~AnyFilterGiven(sreq) THEN SentFilter = EmptyDict
        ELSE /\ "pagination_eq" \in DOMAIN SentFilter
             /\ SentFilter.pagination_eq.first =
                    (IF sreq.first = NoFirst THEN 50 ELSE sreq.first)
             /\ IF sreq.after \in {None, ""}
                THEN DOMAIN SentFilter.pagination_eq = {"first"}
                ELSE /\ DOMAIN SentFilter.pagination_eq = {"first", "after"}
                     /\ SentFilter.pagination_eq.after = sreq.after

\* a filtered search of the example sent without first and without a cursor
C13_Witness ==
    /\ spc = "posting"
    /\ sreq.via = "example"
    /\ sreq.query = "python"
    /\ sreq.first = NoFirst
    /\ sreq.after = None
    /\ SentFilter.pagination_eq = [first |-> 50]

\* the search has ended on an upstream body with an errors array
ErrorsAnswered == spc = "done" /\ sresp.kind = "body" /\ sresp.errors # NoErrors
\* ... on a body whose data has no search result object
NoResultAnswered ==
    /\ spc = "done"
    /\ sresp.kind = "body"
    /\ sresp.errors = NoErrors
    /\ sresp.data = Obj
    /\ sresp.result \in {Absent, Null}
\* ... on a body with the search result object
ResultAnswered ==
    /\ spc = "done"
    /\ sresp.kind = "body"
    /\ sresp.errors = NoErrors
    /\ sresp.data = Obj
    /\ sresp.result = Obj

\* C14: on an upstream body with an errors array the example raises nothing and
\* returns no jobs, paging with total 0, no next cursor and has_next_page false,
\* and an error_message that carries the message of the first error.
C14_ErrorsGiveDegradedResult ==
    (ErrorsAnswered /\ sreq.via = "example") =>
        /\ sresult.raised = None
        /\ DOMAIN sresult.value = {"jobs", "paging", "error_message"}
        /\ sresult.value.jobs = << >>
        /\ sresult.value.paging = [total |-> 0, next_cursor |-> None, has_next_page |-> FALSE]
        /\ sresult.value.error_message =
              "Upwork API Error: " \o
                 (IF sresp.errors[1] = None THEN "Unknown API error" ELSE sresp.errors[1])

\* the example answered a body with two errors
C14_Witness ==
    /\ ErrorsAnswered
    /\ sreq.via = "example"
    /\ sresp.errors = <<"boom", "bang">>
    /\ sresult.value.error_message = "Upwork API Error: boom"

\* C15: on an upstream body without the search result object (null or absent) the
\* search raises nothing and returns no jobs, the zero/false paging and an
\* error message.
C15_NoResultGivesDegradedResult ==
    NoResultAnswered =>
        /\ sresult.raised = None
        /\ sresult.value.jobs = << >>
        /\ sresult.value.paging = [total |-> 0, next_cursor |-> None, has_next_page |-> FALSE]
        /\ "error_message" \in DOMAIN sresult.value

C17_ErrorTaxonomy ==
    (spc = "done" /\ sreq.via = "fetch_jobs" /\ sresult.raised # None) =>
        /\ sreply.status_code \in {401, 503, 500}
        /\ sreply.status_code = 401 <=> Missing(environ) # {}
        /\ (IsError(tret[SearchTask]) \/ sresp.kind = "raise") => sreply.status_code = 503
        /\ sreply.status_code = 500 => sreply.detail = "Internal server error fetching jobs."

\* C18: a node with a missing or null nested object still gives a job record, with
\* null dependent fields or an empty skill list, and every node of the response
\* gives its record.
C18_NullTolerantNormaliser ==
    ResultAnswered =>
        /\ sresult.raised = None
        /\ Len(sresult.value.jobs) = Len(sresp.edges)
        /\ \A i \in 1..Len(sresp.edges) :
              LET node == sresp.edges[i]
                  job == sresult.value.jobs[i]
              IN  /\ job.title = node.title
                  /\ (node.job # Obj \/ node.contractTerms # Obj) => job.job_type = None
                  /\ (node.client # Obj \/ node.location # Obj) => job.client.country = None
                  /\ node.skills # Obj => job.skills = << >>

\* C19: every returned job record has id = ciphertext = the ciphertext of its
\* node, and a response with one edge gives exactly one record, with the title
\* and ciphertext of that edge's node.
C19_IdIsCiphertext ==
    (spc = "done" /\ sresult.raised = None) =>
        /\ Len(sresult.value.jobs) = Len(sresp.edges)
        /\ \A i \in 1..Len(sresult.value.jobs) :
              /\ sresult.value.jobs[i].id = sresult.value.jobs[i].ciphertext
              /\ sresult.value.jobs[i].ciphertext = sresp.edges[i].ciphertext
              /\ sresult.value.jobs[i].title = sresp.edges[i].title

\* a response with the one edge (T1, C1) was answered with one record
C19_Witness ==
    /\ ResultAnswered
    /\ sresp.edges = <<FullNode>>
    /\ Len(sresult.value.jobs) = 1
    /\ sresult.value.jobs[1].title = "T1"
    /\ sresult.value.jobs[1].id = "C1"
    /\ sresult.value.jobs[1].ciphertext = "C1"

\* C20: the locations, first and after of a POST /jobs/fetch body reach the
\* filter sent upstream: locations selects the location clause alone, and with a
\* filter the pagination sent is the body's first and after.
C20_BodyReachesBuilder ==
    (ssent.sent /\ sreq.via = "fetch_jobs") =>
        /\ TruthyList(sreq.locations) =>
              /\ DOMAIN SentFilter \cap ClauseKeys = {"locations_any"}
              /\ SentFilter.locations_any = sreq.locations
        /\ (AnyFilterGiven(sreq) /\ sreq.first # NoFirst) =>
              /\ "pagination_eq" \in DOMAIN SentFilter
              /\ SentFilter.pagination_eq.first = sreq.first
        /\ (AnyFilterGiven(sreq) /\ Truthy(sreq.after)) =>
              /\ "pagination_eq" \in DOMAIN SentFilter
              /\ SentFilter.pagination_eq.after = sreq.after

\* ---- claims about the resolver's lock, the stored tokens and the server ----

\* C28: the lock is held only by the task whose companySelector request is
\* outstanding, a call that found the cache filled or the credentials missing
\* leaves it free, every holder releases it, and every caller that waits for the
\* lock ends with a value or an error.
C28_LockReleasedNoCallerStuck ==
    /\ [](lock # Free => tpc[lock] = "posting")
    /\ [](\A t \in Tasks : tpc[t] = "posting" => lock = t)
    /\ \A t \in Tasks : (lock = t) ~> (lock = Free)
    /\ \A t \in Tasks : (tpc[t] = "acquire") ~> (tpc[t] = "done" /\ tret[t] # "-")

\* a caller has ended with the missing-credentials error and the lock is free
C28_Witness ==
    /\ \E t \in Tasks : tpc[t] = "done" /\ tret[t] = "ValueError"
    /\ lock = Free
    /\ started = MaxCalls
    /\ AllDone

\* C21: every job record the search returns has a url, 'https://www.upwork.com/jobs/'
\* followed by its ciphertext, and a rate.
C21_RecordsCarryUrlAndRate ==
    (spc = "done" /\ sresult.raised = None) =>
        \A i \in 1..Len(sresult.value.jobs) :
            /\ "url" \in DOMAIN sresult.value.jobs[i]
            /\ sresult.value.jobs[i].url =
                  "https://www.upwork.com/jobs/" \o sresult.value.jobs[i].ciphertext
            /\ "rate" \in DOMAIN sresult.value.jobs[i]

\* C22: a companySelector request starts only when no other is outstanding and the
\* lock is free, and its task then holds the lock; while one is outstanding no
\* other request starts and every caller at the lock stays there.
C22_OneResolverAtATime ==
    [][/\ \A t \in Tasks :
             (tpc[t] # "posting" /\ tpc'[t] = "posting") =>
                 /\ Posting = {}
                 /\ lock = Free
                 /\ lock' = t
                 /\ orgCalls' = orgCalls + 1
       /\ Posting # {} =>
             /\ orgCalls' = orgCalls
             /\ \A t \in Tasks : tpc[t] = "acquire" => tpc'[t] = "acquire"]_vars

\* one task's request is outstanding and another task waits at the lock
C22_Witness ==
    \E t, u \in Tasks :
        /\ tpc[t] = "posting"
        /\ lock = t
        /\ tpc[u] = "acquire"
        /\ orgCalls = 1

TokenPair(store) == <<store.UPWORK_ACCESS_TOKEN, store.UPWORK_REFRESH_TOKEN>>

\* C23: while a callback awaits its token response no step changes the .env file;
\* the step that ends a successful callback puts both tokens of the response into
\* .env and into os.environ at once, so every reader (/auth/status after its
\* reload, get_authenticated_client) finds the old pair or the new pair.
C23_SuccessfulWriteIsOneStep ==
    [][/\ (cbPc = "awaiting" /\ cbPc' = "awaiting") => dotenv' = dotenv
       /\ (cbPc = "awaiting" /\ cbPc' = "done" /\ cbReply' = SuccessRedirect) =>
             /\ TokenPair(dotenv') = <<cbResp'.access_token, cbResp'.refresh_token>>
             /\ TokenPair(environ') = <<cbResp'.access_token, cbResp'.refresh_token>>
       /\ (cbPc = "done" /\ cbReply = SuccessRedirect /\ authReply = "-" /\ authReply' # "-") =>
             TokenPair(environ') = <<cbResp.access_token, cbResp.refresh_token>>]_vars

\* a callback has stored both tokens while a resolver's request was outstanding,
\* and /auth/status has answered from the new pair
C23_Witness ==
    /\ cbPc = "done"
    /\ cbReply = SuccessRedirect
    /\ TokenPair(environ) = <<"at1", "rt1">>
    /\ authReply = "true"
    /\ Posting # {}

\* C24: a step changes the stored tokens (.env or os.environ) only when it ends a
\* callback with the success redirect, and no step changes the client id, the
\* client secret or the redirect URI.
C24_TokensChangeOnlyOnSuccess ==
    [][/\ (dotenv' # dotenv \/ TokenPair(environ') # TokenPair(environ)) =>
             (cbPc = "awaiting" /\ cbReply' = SuccessRedirect)
       /\ environ'.UPWORK_CLIENT_ID = environ.UPWORK_CLIENT_ID
       /\ environ'.UPWORK_CLIENT_SECRET = environ.UPWORK_CLIENT_SECRET
       /\ environ'.UPWORK_REDIRECT_URI = environ.UPWORK_REDIRECT_URI]_vars

\* C25: nothing is retried. A callback that awaits its token response only ends;
\* a resolver call sends one companySelector request and then only ends; a search
\* sends one search request and then only ends; and an upstream failure ends the
\* callback with the error redirect and the call or the search with an exception.
C25_NoRetry ==
    [][/\ cbPc = "awaiting" => cbPc' \in {"awaiting", "done"}
       /\ (/\ cbPc = "awaiting" /\ cbPc' = "done"
           /\ (cbResp'.status = TransportError \/ cbResp'.status >= 400)) =>
             cbReply'.auth_status = "error"
       /\ orgCalls' # orgCalls =>
             /\ orgCalls' = orgCalls + 1
             /\ \E t \in Tasks : tpc[t] = "acquire" /\ tpc'[t] = "posting"
       /\ \A t \in Tasks :
             /\ tpc[t] = "posting" => (tpc'[t] \in {"posting", "done"} /\ orgCalls' = orgCalls)
             /\ (tpc[t] = "posting" /\ tpc'[t] = "done" /\ orgResp' \in FailingOrgResponses) =>
                   IsError(tret'[t])
       /\ searchLog' # searchLog =>
             /\ spc = "tenant" /\ spc' = "posting"
             /\ Len(searchLog') = Len(searchLog) + 1
       /\ spc = "posting" => spc' \in {"posting", "done"}
       /\ spc = "done" => spc' \in {"done", "idle"}
       /\ (spc = "posting" /\ spc' = "done" /\ sresp'.kind = "raise") =>
             sresult'.raised = "ConnectionError"]_vars

\* a failed callback, a failed resolution and a failed search in one run, the
\* search having sent its one request
C25_Witness ==
    /\ cbPc = "done" /\ cbReply.auth_status = "error"
    /\ orgFails = 1
    /\ orgCalls = 2
    /\ spc = "done" /\ sresp.kind = "raise"
    /\ Len(searchLog) = 1

\* C26: a resolution whose response lists organizations returns and caches the
\* id of the first one; with an empty list it returns and caches the configured
\* default tenant id, and without one it raises and leaves the cache empty.
C26_FirstOrganizationOrDefault ==
    [][\A t \in Tasks :
          (tpc[t] = "posting" /\ tpc'[t] = "done" /\ orgResp'.kind = "data") =>
              IF orgResp'.items # << >>
              THEN Truthy(orgResp'.items[1]) =>
                      (tret'[t] = orgResp'.items[1] /\ tenantCache' = orgResp'.items[1])
              ELSE IF environ.UPWORK_DEFAULT_TENANT_ID \in {None, ""}
                   THEN IsError(tret'[t]) /\ tenantCache' = None
                   ELSE /\ tret'[t] = environ.UPWORK_DEFAULT_TENANT_ID
                        /\ tenantCache' = environ.UPWORK_DEFAULT_TENANT_ID]_vars

\* the first of two organizations was cached
C26_Witness ==
    /\ orgResp.kind = "data"
    /\ orgResp.items = <<"org2", "org1">>
    /\ tenantCache = "org2"
    /\ \E t \in Tasks : tpc[t] = "done" /\ tret[t] = "org2"

\* C27: the step that ends a callback leaves the tenant cache as it is, and every
\* search request carries the same organization header, whatever access token
\* its client was built with: the tenant id resolved first.
C27_RotationKeepsTenant ==
    /\ [][(cbPc = "awaiting" /\ cbPc' = "done") => tenantCache' = tenantCache]_vars
    /\ [](\A i, j \in 1..Len(searchLog) : searchLog[i].org = searchLog[j].org)
    /\ [](searchLog # << >> => searchLog[1].org = tenantCache)

\* a search with the old access token and a search with the new one sent the
\* same tenant id, resolved once
C27_Witness ==
    /\ Len(searchLog) = 2
    /\ searchLog[1].access_token = "at0"
    /\ searchLog[2].access_token = "at1"
    /\ searchLog[1].org = searchLog[2].org
    /\ orgCalls = 1
    /\ cbReply = SuccessRedirect

\* C29: POST /jobs/fetch answers 401 only when one of the five credentials is
\* absent or empty.
C29_401OnlyForMissingCredentials ==
    (spc = "done" /\ sreq.via = "fetch_jobs" /\ sreply.status_code = 401) =>
        Missing(environ) # {}

\* C30: the step that sends a search request is taken by a search whose client
\* is built and whose resolver call has returned, and the request carries the
\* cached tenant id and the client's access token; a search that starts with a
\* credential missing ends at once with ValueError, sends nothing and leaves the
\* tenant cache and the request counts as they are.
C30_SearchSendsCachedTenant ==
    [][/\ searchLog' # searchLog =>
             /\ sclient # NoClient
             /\ tpc[SearchTask] = "done"
             /\ Truthy(tenantCache)
             /\ ssent'.sent
             /\ ssent'.org = tenantCache
             /\ searchLog'[Len(searchLog')] =
                   [access_token |-> sclient.token.access_token, org |-> tenantCache]
       /\ (spc = "idle" /\ spc' # "idle" /\ Missing(environ) # {}) =>
             /\ spc' = "done"
             /\ sresult'.raised = "ValueError"
             /\ searchLog' = searchLog
             /\ orgCalls' = orgCalls
             /\ tenantCache' = tenantCache]_vars

\* a search whose client was built after a callback has sent the tenant id that
\* was cached before, without a new companySelector request
C30_Witness ==
    /\ spc = "posting"
    /\ sclient.token.access_token = "at1"
    /\ ssent.org = tenantCache
    /\ Len(searchLog) = 2
    /\ orgCalls = 1

====
